---- MODULE Spec2Model ----
(***************************************************************************)
(* Model of the CronBeats Go SDK ping client (package cronbeatsgo):        *)
(* construction, the four action methods, the request/retry loop, the      *)
(* status classification and the JSON fallbacks.                           *)
(*                                                                         *)
(* Strings the code inspects character by character (job key, End status,  *)
(* base URL, user agent, paths) are sequences of one-character strings.    *)
(* A Progress message is a sequence of bytes, as Go's len() and slicing    *)
(* see it: "x" an ASCII byte, " " a space, "L" the lead byte and "T" the   *)
(* continuation byte of a two-byte UTF-8 character.                        *)
(***************************************************************************)
EXTENDS Integers, Sequences, FiniteSets, TLC

VARIABLES
    opts,       \* the Options handed to NewPingClient
    client,     \* the *PingClient NewPingClient returned, or NoClient
    newErr,     \* the error NewPingClient returned, or Nil
    pc,         \* "new" | "invalid" | "idle" | "request" | "backoff" | "sleep" | "done"
    call,       \* the running call: method name and its arguments
    req,        \* locals of request(): action, url, payload
    attempt,    \* local `attempt` of request()
    events,     \* what the running call did so far: transport invocations and sleeps
    waitMs,     \* the duration handed to c.sleep while the call sleeps
    res,        \* what the transport returned to the iteration that ended the call
    ret,        \* what the call returned: [res, err]
    gs,         \* concurrent calls: per goroutine, the locals of its request()
    rng         \* state of the client's generator c.rng

vars == <<gs, rng, opts, client, newErr, pc, call, req, attempt, events, waitMs, res, ret>>

(***************************************************************************)
(* Bounds                                                                  *)
(***************************************************************************)
MaxRetriesOpt == 2      \* largest Options.MaxRetries tried
MaxOver == 1            \* how far a message may exceed the truncation limit
NumGoroutines == 2      \* goroutines calling the same client at once
RngPeriod == 3          \* number of states of the generator

(***************************************************************************)
(* Characters and strings                                                  *)
(***************************************************************************)
UpperChars == <<"A","B","C","D","E","F","G","H","I","J","K","L","M",
                "N","O","P","Q","R","S","T","U","V","W","X","Y","Z">>
LowerChars == <<"a","b","c","d","e","f","g","h","i","j","k","l","m",
                "n","o","p","q","r","s","t","u","v","w","x","y","z">>
DigitChars == <<"0","1","2","3","4","5","6","7","8","9">>

Range(s) == {s[i] : i \in DOMAIN s}

IsSpace(c) == c \in {" ", "\t", "\n", "\r"}

ToLowerChar(c) ==
    IF \E i \in DOMAIN UpperChars : UpperChars[i] = c
    THEN LowerChars[CHOOSE i \in DOMAIN UpperChars : UpperChars[i] = c]
    ELSE c

ToLower(s) == [i \in DOMAIN s |-> ToLowerChar(s[i])]

RECURSIVE TrimLeft(_)
TrimLeft(s) ==
    IF s # <<>> /\ IsSpace(Head(s)) THEN TrimLeft(Tail(s)) ELSE s

RECURSIVE TrimRightSpace(_)
TrimRightSpace(s) ==
    IF s # <<>> /\ IsSpace(s[Len(s)])
    THEN TrimRightSpace(SubSeq(s, 1, Len(s) - 1))
    ELSE s

TrimSpace(s) == TrimRightSpace(TrimLeft(s))

RECURSIVE TrimRight(_, _)
TrimRight(s, c) ==
    IF s # <<>> /\ s[Len(s)] = c
    THEN TrimRight(SubSeq(s, 1, Len(s) - 1), c)
    ELSE s

RECURSIVE FormatInt(_)
FormatInt(n) ==
    IF n < 0 THEN <<"-">> \o FormatInt(0 - n)
    ELSE IF n < 10 THEN <<DigitChars[n + 1]>>
    ELSE FormatInt(n \div 10) \o <<DigitChars[(n % 10) + 1]>>

Rep(c, n) == [i \in 1..n |-> c]

(***************************************************************************)
(* Values                                                                  *)
(***************************************************************************)
Nil == [kind |-> "nil"]
NoClient == [kind |-> "nil"]
NoReq == [action |-> "", url |-> <<>>, payload |-> Nil]
NoCall == [method |-> "none"]
NoRet == [res |-> Nil, err |-> Nil]
NoRes == [failed |-> FALSE, err |-> "", status |-> 0, body |-> ""]

CodeValidation == "VALIDATION_ERROR"
CodeNotFound == "NOT_FOUND"
CodeRateLimit == "RATE_LIMITED"
CodeServer == "SERVER_ERROR"
CodeNetwork == "NETWORK_ERROR"
CodeUnknown == "UNKNOWN_ERROR"

ValidationError(msg) == [kind |-> "ValidationError", Message |-> msg]

DefaultBaseURL ==
    <<"h","t","t","p","s",":","/","/","c","r","o","n","b","e","a","t","s",".","i","o">>
DefaultUserAgent ==
    <<"c","r","o","n","b","e","a","t","s","-","g","o","-","s","d","k","/","0",".","1",".","0">>
DefaultTimeoutMs == 5000
DefaultMaxRetries == 2
DefaultRetryBackoffMs == 250
DefaultRetryJitterMs == 100
MaxMessageLen == 255

(***************************************************************************)
(* Helpers of the client file                                              *)
(***************************************************************************)
defaultString(v, fallback) == IF TrimSpace(v) = <<>> THEN fallback ELSE v

\* Mutant: every value that is not positive gives way to the fallback.
defaultInt_NonPositive(v, fallback) == IF v <= 0 THEN fallback ELSE v

defaultInt(v, fallback) == IF v = 0 THEN fallback ELSE v

maxInt(a, b) == IF a > b THEN a ELSE b

IsAlnum(c) ==
    c \in Range(UpperChars) \cup Range(LowerChars) \cup Range(DigitChars)

\* Mutant: the pattern without its end anchor.
jobKeyRegexMatch_Unanchored(k) == Len(k) >= 8 /\ \A i \in 1..8 : IsAlnum(k[i])

jobKeyRegexMatch(k) == Len(k) = 8 /\ \A i \in 1..8 : IsAlnum(k[i])

(***************************************************************************)
(* Construction                                                            *)
(***************************************************************************)
GoodKey == <<"a","b","c","1","2","3","d","e">>

JobKeys ==
    { GoodKey,
      <<"a","b","c","1","2","3","d">>,
      <<"a","b","c","1","2","3","d","e","f">>,
      <<"a","b","c","-","2","3","d","e">>,
      <<>> }

Profiles ==
    { [BaseURL |-> <<>>, TimeoutMs |-> 0, RetryBackoffMs |-> 0,
       RetryJitterMs |-> 0, UserAgent |-> <<>>],
      [BaseURL |-> <<"h",":","/","/","x","/","/">>, TimeoutMs |-> 10,
       RetryBackoffMs |-> 1, RetryJitterMs |-> 2, UserAgent |-> <<"u","a">>] }

OptionsSet ==
    { [BaseURL |-> p.BaseURL, TimeoutMs |-> p.TimeoutMs, MaxRetries |-> m,
       RetryBackoffMs |-> p.RetryBackoffMs, RetryJitterMs |-> p.RetryJitterMs,
       UserAgent |-> p.UserAgent] : p \in Profiles, m \in (0 - 1)..MaxRetriesOpt }

NewClient(jobKey, options) ==
    [kind |-> "PingClient",
     baseURL |-> TrimRight(defaultString(options.BaseURL, DefaultBaseURL), "/"),
     jobKey |-> jobKey,
     timeoutMs |-> defaultInt(options.TimeoutMs, DefaultTimeoutMs),
     maxRetries |-> defaultInt(options.MaxRetries, DefaultMaxRetries),
     retryBackoffMs |-> defaultInt(options.RetryBackoffMs, DefaultRetryBackoffMs),
     retryJitterMs |-> defaultInt(options.RetryJitterMs, DefaultRetryJitterMs),
     userAgent |-> defaultString(options.UserAgent, DefaultUserAgent)]

Goroutines == 1..NumGoroutines

\* Locals of one goroutine's call: its position, request()'s `attempt`, the
\* number of transport invocations it made, the generator state it loaded
\* inside Intn, the wait it handed to c.sleep, and what it returned.
IdleGoroutine ==
    [pc |-> "idle", attempt |-> 0, n |-> 0, tmp |-> 0, wait |-> 0, ret |-> "none"]

Init ==
    /\ gs = [i \in Goroutines |-> IdleGoroutine]
    /\ rng = 0
    /\ opts \in OptionsSet
    /\ client = NoClient
    /\ newErr = Nil
    /\ pc = "new"
    /\ call = NoCall
    /\ req = NoReq
    /\ attempt = 0
    /\ events = <<>>
    /\ waitMs = 0
    /\ res = NoRes
    /\ ret = NoRet

\* NewPingClient(jobKey, &opts) for a job key drawn from `keys`.
NewPingClientFrom(keys) ==
    /\ pc = "new"
    /\ \E jobKey \in keys :
        /\ call' = [method |-> "NewPingClient", jobKey |-> jobKey]
        /\ IF ~jobKeyRegexMatch(jobKey)
           THEN /\ newErr' = ValidationError("jobKey must be exactly 8 Base62 characters.")
                /\ client' = NoClient
                /\ pc' = "invalid"
           ELSE /\ newErr' = Nil
                /\ client' = NewClient(jobKey, opts)
                /\ pc' = "idle"
    /\ UNCHANGED <<gs, rng, opts, req, attempt, events, waitMs, res, ret>>

NewPingClient == NewPingClientFrom(JobKeys)

\* Job keys for the check of construction alone.
ManyJobKeys ==
    JobKeys \cup
    { <<"Y","C","r","X","z","Y","b","V">>,
      <<"0","1","2","3","4","5","6","7">>,
      <<"Z","Z","Z","Z","Z","Z","Z","Z">>,
      <<"i","n","v","a","l","i","d","-","k","e","y">>,
      <<"a","b","c","1","2","3","d","e","\n">>,
      <<" ","b","c","1","2","3","d","e">>,
      <<"a","b","c","1","2","3","d","_">>,
      <<"a","b","c","1","2","3","d","/">>,
      <<"a","b","c","1","2","3","d"," ">>,
      <<"a">>,
      <<"a","b","c","1","2","3","d","e","a","b","c","1","2","3","d","e">> }

NewPingClientAny == NewPingClientFrom(ManyJobKeys)

SpecNew == Init /\ [][NewPingClientAny]_vars

(***************************************************************************)
(* JSON                                                                    *)
(***************************************************************************)
\* Characters of a byte string as encoding/json writes them: an ASCII byte
\* is itself, a lead byte followed by its continuation byte is the two-byte
\* character "E", and a byte that does not start a valid character is
\* replaced by U+FFFD, written "R".
NotSkipped(r) == r # "skip"

Runes(b) ==
    LET at(i) ==
            IF b[i] = "T" /\ i > 1 /\ b[i - 1] = "L" THEN "skip"
            ELSE IF b[i] = "L" /\ i < Len(b) /\ b[i + 1] = "T" THEN "E"
            ELSE IF b[i] \in {"L", "T"} THEN "R"
            ELSE b[i]
    IN  SelectSeq([i \in 1..Len(b) |-> at(i)], NotSkipped)

\* json.Marshal of the body map of Progress: the JSON text is represented
\* by the object a JSON decoder reads back from it.
jsonMarshal(body) == [kind |-> "json", message |-> Runes(body.message)]

bodyLen(body) == IF body.kind = "nil" THEN 0 ELSE 1

\* Response bodies the transport may deliver, as raw text.
BodyEmptyObject == "{}"
BodyNotFound == "{\"status\":\"error\",\"message\":\"Job not found\"}"
BodyEmptyMessage == "{\"message\":\"\"}"
BodyNumberMessage == "{\"message\":5}"
BodyGarbage == "<html>oops"
BodyArray == "[1]"
BodyNull == "null"
BodyEmpty == ""

\* Bodies of successful responses, with the fields of a ping result.
BodyPing ==
    "{\"status\":\"success\",\"message\":\"OK\",\"action\":\"ping\",\"job_key\":\"abc123de\",\"timestamp\":\"2026-02-25 12:00:00\",\"processing_time_ms\":8.25}"
BodyOther ==
    "{\"action\":\"start\",\"job_key\":\"ZZZZ9999\",\"processing_time_ms\":\"8.25\",\"next_expected\":\"2026-02-26 12:00:00\"}"
BodyBlankFields == "{\"action\":\"\",\"job_key\":\"\",\"processing_time_ms\":\"abc\"}"
BodyWrongTypes ==
    "{\"action\":5,\"job_key\":true,\"processing_time_ms\":null,\"next_expected\":7}"
BodyLenient == "{\"processing_time_ms\":\"12abc\"}"

SuccessBodies == {BodyPing, BodyOther, BodyBlankFields, BodyWrongTypes, BodyLenient}

OtherKey == <<"Z","Z","Z","Z","9","9","9","9">>

Bodies ==
    { BodyEmptyObject, BodyNotFound, BodyEmptyMessage, BodyNumberMessage,
      BodyGarbage, BodyArray, BodyNull, BodyEmpty }

JString(s) == [t |-> "string", s |-> s]
JNumber(n) == [t |-> "number", n |-> n]
JObject(m) == [t |-> "object", m |-> m]
JArray == [t |-> "array"]
JNull == [t |-> "null"]
JBool(b) == [t |-> "bool", b |-> b]

InvalidJSONMessage == "Invalid JSON response"

\* json.Unmarshal([]byte(raw), &decoded) on the bodies above.
jsonUnmarshal(raw) ==
    CASE raw = BodyEmptyObject -> [err |-> FALSE, decoded |-> JObject(<<>>)]
      [] raw = BodyNotFound ->
            [err |-> FALSE,
             decoded |-> JObject([status |-> JString("error"),
                                  message |-> JString("Job not found")])]
      [] raw = BodyEmptyMessage ->
            [err |-> FALSE, decoded |-> JObject([message |-> JString("")])]
      [] raw = BodyNumberMessage ->
            [err |-> FALSE, decoded |-> JObject([message |-> JNumber(5)])]
      [] raw = BodyPing ->
            [err |-> FALSE,
             decoded |-> JObject([status |-> JString("success"),
                                  message |-> JString("OK"),
                                  action |-> JString("ping"),
                                  job_key |-> JString(GoodKey),
                                  timestamp |-> JString("2026-02-25 12:00:00"),
                                  processing_time_ms |-> JNumber(825)])]
      [] raw = BodyOther ->
            [err |-> FALSE,
             decoded |-> JObject([action |-> JString("start"),
                                  job_key |-> JString(OtherKey),
                                  processing_time_ms |-> JString("8.25"),
                                  next_expected |-> JString("2026-02-26 12:00:00")])]
      [] raw = BodyBlankFields ->
            [err |-> FALSE,
             decoded |-> JObject([action |-> JString(""),
                                  job_key |-> JString(<<>>),
                                  processing_time_ms |-> JString("abc")])]
      [] raw = BodyWrongTypes ->
            [err |-> FALSE,
             decoded |-> JObject([action |-> JNumber(5),
                                  job_key |-> JBool(TRUE),
                                  processing_time_ms |-> JNull,
                                  next_expected |-> JNumber(7)])]
      [] raw = BodyLenient ->
            [err |-> FALSE,
             decoded |-> JObject([processing_time_ms |-> JString("12abc")])]
      [] raw = BodyArray -> [err |-> FALSE, decoded |-> JArray]
      [] raw = BodyNull -> [err |-> FALSE, decoded |-> JNull]
      [] OTHER -> [err |-> TRUE, decoded |-> JNull]

\* Mutant: a decoded value that is no object becomes an empty object.
safeJSON_EmptyForNonObject(raw) ==
    LET u == jsonUnmarshal(raw) IN
    IF u.err THEN [message |-> JString(InvalidJSONMessage)]
    ELSE IF u.decoded.t # "object" THEN <<>>
    ELSE u.decoded.m

safeJSON(raw) ==
    LET u == jsonUnmarshal(raw) IN
    IF u.err THEN [message |-> JString(InvalidJSONMessage)]
    ELSE IF u.decoded.t # "object" THEN [message |-> JString(InvalidJSONMessage)]
    ELSE u.decoded.m

\* v, _ := payload[key].(string)
stringField(payload, key) ==
    IF key \in DOMAIN payload /\ payload[key].t = "string"
    THEN payload[key].s
    ELSE ""

(***************************************************************************)
(* Status classification                                                   *)
(***************************************************************************)
\* Mutants of the classification: a retryable 400, and 500 itself left out
\* of the server range.
mapError_Retryable400(status) ==
    IF status = 400 THEN [code |-> CodeValidation, retryable |-> TRUE]
    ELSE IF status = 404 THEN [code |-> CodeNotFound, retryable |-> FALSE]
    ELSE IF status = 429 THEN [code |-> CodeRateLimit, retryable |-> TRUE]
    ELSE IF status >= 500 THEN [code |-> CodeServer, retryable |-> TRUE]
    ELSE [code |-> CodeUnknown, retryable |-> FALSE]

mapError_Above500(status) ==
    IF status = 400 THEN [code |-> CodeValidation, retryable |-> FALSE]
    ELSE IF status = 404 THEN [code |-> CodeNotFound, retryable |-> FALSE]
    ELSE IF status = 429 THEN [code |-> CodeRateLimit, retryable |-> TRUE]
    ELSE IF status > 500 THEN [code |-> CodeServer, retryable |-> TRUE]
    ELSE [code |-> CodeUnknown, retryable |-> FALSE]

mapError(status) ==
    IF status = 400 THEN [code |-> CodeValidation, retryable |-> FALSE]
    ELSE IF status = 404 THEN [code |-> CodeNotFound, retryable |-> FALSE]
    ELSE IF status = 429 THEN [code |-> CodeRateLimit, retryable |-> TRUE]
    ELSE IF status >= 500 THEN [code |-> CodeServer, retryable |-> TRUE]
    ELSE [code |-> CodeUnknown, retryable |-> FALSE]

(***************************************************************************)
(* request(): the retry loop                                               *)
(***************************************************************************)
Str_ping == <<"/","p","i","n","g","/">>
Str_start == <<"/","s","t","a","r","t">>
Str_end == <<"/","e","n","d","/">>
Str_progress == <<"/","p","r","o","g","r","e","s","s">>
Str_success == <<"s","u","c","c","e","s","s">>
Str_fail == <<"f","a","i","l">>

pingPath(c) == Str_ping \o c.jobKey
startPath(c) == Str_ping \o c.jobKey \o Str_start
endPath(c, statusValue) == Str_ping \o c.jobKey \o Str_end \o statusValue
\* Mutant: the sequence is left out of the path.
progressPath_NoSeq(c, seqProvided, seq) == Str_ping \o c.jobKey \o Str_progress

progressPath(c, seqProvided, seq) ==
    IF seqProvided
    THEN Str_ping \o c.jobKey \o Str_progress \o <<"/">> \o FormatInt(seq)
    ELSE Str_ping \o c.jobKey \o Str_progress

NoBody == [kind |-> "nil"]
MessageBody(msg) == [kind |-> "map", message |-> msg]

Headers(c) ==
    [ContentType |-> "application/json", Accept |-> "application/json",
     UserAgent |-> c.userAgent]

\* Mutant: the timeout grows with the attempt.
TransportArgs_TimeoutPerAttempt(c, r) ==
    [method |-> "POST", url |-> r.url, headers |-> Headers(c),
     body |-> r.payload, timeoutMs |-> c.timeoutMs * (attempt + 1)]

\* The arguments one loop iteration hands to c.httpClient.Request.
TransportArgs(c, r) ==
    [method |-> "POST", url |-> r.url, headers |-> Headers(c),
     body |-> r.payload, timeoutMs |-> c.timeoutMs]

\* Entry of request(action, path, body) up to the first loop iteration.
BeginRequest(action, path, body) ==
    /\ req' = [action |-> action,
               url |-> client.baseURL \o path,
               payload |-> IF bodyLen(body) > 0 THEN jsonMarshal(body) ELSE Nil]
    /\ attempt' = 0
    /\ events' = <<>>
    /\ waitMs' = 0
    /\ res' = NoRes
    /\ ret' = NoRet
    /\ pc' = "request"

\* An action method that returns before calling request().
ReturnEarly(err) ==
    /\ req' = NoReq
    /\ attempt' = 0
    /\ events' = <<>>
    /\ waitMs' = 0
    /\ res' = NoRes
    /\ ret' = [res |-> Nil, err |-> err]
    /\ pc' = "done"

CanCall == pc = "idle"

Ping ==
    /\ CanCall
    /\ call' = [method |-> "Ping"]
    /\ BeginRequest("ping", pingPath(client), NoBody)
    /\ UNCHANGED <<gs, rng, opts, client, newErr>>

Start ==
    /\ CanCall
    /\ call' = [method |-> "Start"]
    /\ BeginRequest("start", startPath(client), NoBody)
    /\ UNCHANGED <<gs, rng, opts, client, newErr>>

EndStatuses ==
    { <<>>, <<" ", "\t">>,
      <<"S","U","C","C","E","S","S">>,
      <<" ","F","a","i","l","\n">>,
      <<"f","a","i","l","e","d">>,
      <<"o","k">>,
      <<"f","a"," ","i","l">>,
      <<" ","D","O","N","E"," ">> }

\* End(status) after its call record is chosen; Success() and Fail() go
\* through it with a fixed status.
EndBody(status) ==
    LET trimmed == ToLower(TrimSpace(status))
        statusValue == IF trimmed = <<>> THEN Str_success ELSE trimmed
    IN  IF statusValue # Str_success /\ statusValue # Str_fail
        THEN ReturnEarly(ValidationError("Status must be \"success\" or \"fail\"."))
        ELSE BeginRequest("end", endPath(client, statusValue), NoBody)

End ==
    /\ CanCall
    /\ \E status \in EndStatuses :
        /\ call' = [method |-> "End", status |-> status]
        /\ EndBody(status)
    /\ UNCHANGED <<gs, rng, opts, client, newErr>>

Success ==
    /\ CanCall
    /\ call' = [method |-> "Success", status |-> Str_success]
    /\ EndBody(Str_success)
    /\ UNCHANGED <<gs, rng, opts, client, newErr>>

Fail ==
    /\ CanCall
    /\ call' = [method |-> "Fail", status |-> Str_fail]
    /\ EndBody(Str_fail)
    /\ UNCHANGED <<gs, rng, opts, client, newErr>>

\* Progress inputs: the dynamic type of `input`, the int value, and for the
\* options struct its Seq pointer (a set with at most one element) and
\* Message; ptrNil marks a nil *ProgressOptions.
PInput(type, v, seqPtr, msg, ptrNil) ==
    [type |-> type, v |-> v, Seq |-> seqPtr, Message |-> msg, ptrNil |-> ptrNil]

InNil == PInput("nil", 0, {}, <<>>, FALSE)
InInt(v) == PInput("int", v, {}, <<>>, FALSE)
InOpts(seqPtr, msg) == PInput("ProgressOptions", 0, seqPtr, msg, FALSE)
InPtr(seqPtr, msg) == PInput("*ProgressOptions", 0, seqPtr, msg, FALSE)
InNilPtr == PInput("*ProgressOptions", 0, {}, <<>>, TRUE)
InOther(type) == PInput(type, 0, {}, <<>>, FALSE)

MsgHi == <<"x", "x">>
MsgBlank == <<" ", " ">>
MsgAscii(n) == Rep("x", n)
MsgTwoByte(n) == [i \in 1..(2 * n) |-> IF i % 2 = 1 THEN "L" ELSE "T"]

ProgressArgs ==
    { [input |-> InNil, message |-> <<>>],
      [input |-> InInt(12), message |-> <<MsgAscii(MaxMessageLen)>>],
      [input |-> InInt(0 - 1), message |-> <<MsgHi>>],
      [input |-> InOpts({0 - 1}, MsgHi), message |-> <<>>],
      [input |-> InOpts({}, MsgBlank), message |-> <<MsgHi>>],
      [input |-> InOpts({}, MsgBlank), message |-> <<>>],
      [input |-> InOpts({}, MsgTwoByte(128)), message |-> <<>>],
      [input |-> InOpts({0}, <<"x">> \o MsgTwoByte(128)), message |-> <<>>],
      [input |-> InNilPtr, message |-> <<MsgHi>>],
      [input |-> InPtr({7}, MsgHi), message |-> <<MsgBlank>>],
      [input |-> InOther("string"), message |-> <<>>],
      [input |-> InOther("int64"), message |-> <<MsgHi>>] }
    \cup { [input |-> InOpts({50}, MsgAscii(MaxMessageLen + k)), message |-> <<>>] :
             k \in 1..MaxOver }

\* Mutant: the slice one byte short.
truncate_OneShort(msg) ==
    IF Len(msg) > MaxMessageLen THEN SubSeq(msg, 1, MaxMessageLen - 1) ELSE msg

\* if len(msg) > 255 { msg = msg[:255] }
truncate(msg) ==
    IF Len(msg) > MaxMessageLen THEN SubSeq(msg, 1, MaxMessageLen) ELSE msg

\* Mutant: a bare int does not mark the sequence as provided.
progressSwitch_IntNotProvided(input, message) ==
    LET msg0 == IF Len(message) > 0 THEN message[1] ELSE <<>>
        fromOpts ==
            [ok |-> TRUE,
             seq |-> IF input.Seq # {} THEN CHOOSE n \in input.Seq : TRUE ELSE 0 - 1,
             seqProvided |-> input.Seq # {},
             msg |-> IF TrimSpace(input.Message) # <<>> \/ msg0 = <<>>
                     THEN input.Message ELSE msg0]
        untouched == [ok |-> TRUE, seq |-> 0 - 1, seqProvided |-> FALSE, msg |-> msg0]
    IN  CASE input.type = "nil" -> untouched
          [] input.type = "int" ->
                [ok |-> TRUE, seq |-> input.v, seqProvided |-> FALSE, msg |-> msg0]
          [] input.type = "ProgressOptions" -> fromOpts
          [] input.type = "*ProgressOptions" ->
                IF input.ptrNil THEN untouched ELSE fromOpts
          [] OTHER -> [ok |-> FALSE, seq |-> 0 - 1, seqProvided |-> FALSE, msg |-> msg0]

\* The switch on the input's dynamic type: seq, seqProvided, msg, or the
\* default branch.
progressSwitch(input, message) ==
    LET msg0 == IF Len(message) > 0 THEN message[1] ELSE <<>>
        fromOpts ==
            [ok |-> TRUE,
             seq |-> IF input.Seq # {} THEN CHOOSE n \in input.Seq : TRUE ELSE 0 - 1,
             seqProvided |-> input.Seq # {},
             msg |-> IF TrimSpace(input.Message) # <<>> \/ msg0 = <<>>
                     THEN input.Message ELSE msg0]
        untouched == [ok |-> TRUE, seq |-> 0 - 1, seqProvided |-> FALSE, msg |-> msg0]
    IN  CASE input.type = "nil" -> untouched
          [] input.type = "int" ->
                [ok |-> TRUE, seq |-> input.v, seqProvided |-> TRUE, msg |-> msg0]
          [] input.type = "ProgressOptions" -> fromOpts
          [] input.type = "*ProgressOptions" ->
                IF input.ptrNil THEN untouched ELSE fromOpts
          [] OTHER -> [ok |-> FALSE, seq |-> 0 - 1, seqProvided |-> FALSE, msg |-> msg0]

Progress ==
    /\ CanCall
    /\ \E args \in ProgressArgs :
        LET sw == progressSwitch(args.input, args.message)
            body == MessageBody(truncate(sw.msg))
        IN  /\ call' = [method |-> "Progress", input |-> args.input,
                        message |-> args.message]
            /\ IF ~sw.ok
               THEN ReturnEarly(ValidationError(
                        "Progress input must be int, ProgressOptions, or nil."))
               ELSE IF sw.seqProvided /\ sw.seq < 0
               THEN ReturnEarly(ValidationError(
                        "Progress seq must be a non-negative integer."))
               ELSE BeginRequest("progress",
                                 progressPath(client, sw.seqProvided, sw.seq), body)
    /\ UNCHANGED <<gs, rng, opts, client, newErr>>

(***************************************************************************)
(* The transport and the loop body                                         *)
(***************************************************************************)
Statuses == {199, 200, 299, 300, 400, 404, 429, 499, 500, 600}

\* Statuses delivered with every body; the others come with one body.
BodyStatuses == {200, 404, 500}

NetFailure == [failed |-> TRUE, err |-> "socket timeout: timeout", status |-> 0, body |-> ""]
Response(status, body) == [failed |-> FALSE, err |-> "", status |-> status, body |-> body]

\* What c.httpClient.Request may return: an error, or a response.
Outcomes ==
    {NetFailure}
    \cup {Response(st, BodyNotFound) : st \in Statuses}
    \cup {Response(st, b) : st \in BodyStatuses, b \in Bodies}
    \cup {Response(200, b) : b \in SuccessBodies}

RequestEvent(out) ==
    [type |-> "request", args |-> TransportArgs(client, req),
     failed |-> out.failed, status |-> out.status]
SleepEvent(n) == [type |-> "sleep", attempt |-> n]

\* fmt.Sscanf(x, "%f", &f) on the strings of the bodies above: the scan
\* takes the longest numeric prefix and does not mind what follows it.
\* Numbers are kept in hundredths, so 8.25 is 825.
sscanfFloat(x) ==
    CASE x = "8.25" -> [err |-> FALSE, f |-> 825]
      [] x = "12abc" -> [err |-> FALSE, f |-> 1200]
      [] OTHER -> [err |-> TRUE, f |-> 0]

floatOrZero(payload, key) ==
    IF key \notin DOMAIN payload THEN 0
    ELSE IF payload[key].t = "number" THEN payload[key].n
    ELSE IF payload[key].t = "string" /\ ~sscanfFloat(payload[key].s).err
         THEN sscanfFloat(payload[key].s).f
    ELSE 0

\* Mutant: the body's action and job key are taken even when empty.
normalizeSuccess_NoFallback(c, action, payload) ==
    LET hasAction == "action" \in DOMAIN payload /\ payload["action"].t = "string"
        hasKey == "job_key" \in DOMAIN payload /\ payload["job_key"].t = "string"
    IN  [kind |-> "PingSuccess",
         Ok |-> TRUE,
         Action |-> IF hasAction THEN payload["action"].s ELSE action,
         JobKey |-> IF hasKey THEN payload["job_key"].s ELSE c.jobKey,
         Timestamp |-> stringField(payload, "timestamp"),
         ProcessingTimeMs |-> floatOrZero(payload, "processing_time_ms"),
         NextExpected |-> IF "next_expected" \in DOMAIN payload
                             /\ payload["next_expected"].t = "string"
                          THEN {payload["next_expected"].s} ELSE {},
         Raw |-> payload]

normalizeSuccess(c, action, payload) ==
    LET outAction == stringField(payload, "action")
        hasKey == "job_key" \in DOMAIN payload /\ payload["job_key"].t = "string"
        outJobKey == IF hasKey THEN payload["job_key"].s ELSE <<>>
    IN  [kind |-> "PingSuccess",
         Ok |-> TRUE,
         Action |-> IF outAction = "" THEN action ELSE outAction,
         JobKey |-> IF outJobKey = <<>> THEN c.jobKey ELSE outJobKey,
         Timestamp |-> stringField(payload, "timestamp"),
         ProcessingTimeMs |-> floatOrZero(payload, "processing_time_ms"),
         NextExpected |-> IF "next_expected" \in DOMAIN payload
                             /\ payload["next_expected"].t = "string"
                          THEN {payload["next_expected"].s} ELSE {},
         Raw |-> payload]

NetworkError(out) ==
    [kind |-> "ApiError", Code |-> CodeNetwork, HTTPStatus |-> {},
     Retryable |-> TRUE, Message |-> out.err,
     Raw |-> [cause |-> out.err]]

ApiError(status, parsed) ==
    LET m == mapError(status)
        msg == stringField(parsed, "message")
    IN  [kind |-> "ApiError", Code |-> m.code, HTTPStatus |-> {status},
         Retryable |-> m.retryable,
         Message |-> IF msg = "" THEN "Request failed" ELSE msg,
         Raw |-> parsed]

Return(out, success, err) ==
    /\ ret' = [res |-> success, err |-> err]
    /\ res' = out
    /\ pc' = "done"
    /\ UNCHANGED attempt

\* Mutant: the retry goes on without a wait.
Retry_NoSleep ==
    /\ attempt' = attempt + 1
    /\ pc' = "request"
    /\ UNCHANGED <<res, ret>>

\* Mutant: the retry does not count.
Retry_NoCount ==
    /\ attempt' = attempt
    /\ pc' = "backoff"
    /\ UNCHANGED <<res, ret>>

Retry ==
    /\ attempt' = attempt + 1
    /\ pc' = "backoff"
    /\ UNCHANGED <<res, ret>>

\* Mutants of the retry decision: one retry too few, one too many.
retryOnError_OneFewer(c, n) == n + 1 < c.maxRetries

retryOnError_OneMore(c, n) == n <= c.maxRetries

retryOnError(c, n) == n < c.maxRetries

\* Mutant: retryable statuses have a budget of their own, counted from the
\* sleeps not yet taken for them.
retryOnStatus_OneMore(c, n, status) ==
    mapError(status).retryable /\ n <= c.maxRetries

\* Mutant: a retryable status gives up one retry early.
retryOnStatus_OneFewer(c, n, status) ==
    mapError(status).retryable /\ n + 1 < c.maxRetries

retryOnStatus(c, n, status) == mapError(status).retryable /\ n < c.maxRetries

\* Mutant: the upper end of the success range one status short.
isSuccess_Below299(status) == status >= 200 /\ status < 299

isSuccess(status) == status >= 200 /\ status < 300

\* One iteration of the loop: the transport is invoked, returns `out`, and
\* the code either returns or moves on to sleepWithBackoff.
Attempt ==
    /\ pc = "request"
    /\ \E out \in Outcomes :
        /\ events' = Append(events, RequestEvent(out))
        /\ IF out.failed
           THEN IF retryOnError(client, attempt)
                THEN Retry
                ELSE Return(out, Nil, NetworkError(out))
           ELSE LET parsed == safeJSON(out.body) IN
                IF isSuccess(out.status)
                THEN Return(out, normalizeSuccess(client, req.action, parsed), Nil)
                ELSE IF retryOnStatus(client, attempt, out.status)
                THEN Retry
                ELSE Return(out, Nil, ApiError(out.status, parsed))
    /\ UNCHANGED <<gs, rng, opts, client, newErr, call, req, waitMs>>

RECURSIVE Pow2(_)
Pow2(n) == IF n <= 0 THEN 1 ELSE 2 * Pow2(n - 1)

JitterDraws(c) == IF c.retryJitterMs > 0 THEN 0..c.retryJitterMs ELSE {0}

backoffMs(c, n) == c.retryBackoffMs * Pow2(maxInt(0, n - 1))

\* sleepWithBackoff(attempt) up to the call of c.sleep.
sleepWithBackoff ==
    /\ pc = "backoff"
    /\ \E jitter \in JitterDraws(client) :
        waitMs' = backoffMs(client, attempt) + jitter
    /\ events' = Append(events, SleepEvent(attempt))
    /\ pc' = "sleep"
    /\ UNCHANGED <<gs, rng, opts, client, newErr, call, req, attempt, res, ret>>

\* c.sleep returns and the loop continues.
SleepReturns ==
    /\ pc = "sleep"
    /\ pc' = "request"
    /\ waitMs' = 0
    /\ UNCHANGED <<gs, rng, opts, client, newErr, call, req, attempt, events, res, ret>>

\* The caller has the result; the client is ready for its next call.
CallReturns ==
    /\ pc = "done"
    /\ pc' = "idle"
    /\ call' = NoCall
    /\ req' = NoReq
    /\ attempt' = 0
    /\ events' = <<>>
    /\ res' = NoRes
    /\ ret' = NoRet
    /\ UNCHANGED <<gs, rng, opts, client, newErr, waitMs>>

Next ==
    \/ NewPingClient
    \/ Ping
    \/ Start
    \/ End
    \/ Success
    \/ Fail
    \/ Progress
    \/ Attempt
    \/ sleepWithBackoff
    \/ SleepReturns
    \/ CallReturns

Spec == Init /\ [][Next]_vars

(***************************************************************************)
(* Several goroutines calling one client                                   *)
(*                                                                         *)
(* Each goroutine runs request() with locals of its own; they share the    *)
(* client's fields and its generator c.rng. rand.Rand.Intn reads the       *)
(* generator's state and writes the next state back without a lock, so it  *)
(* is two steps here.                                                      *)
(***************************************************************************)
InitConc ==
    /\ gs = [i \in Goroutines |-> IdleGoroutine]
    /\ rng = 0
    /\ opts \in OptionsSet
    /\ client = NewClient(GoodKey, opts)
    /\ newErr = Nil
    /\ pc = "conc"
    /\ call = NoCall
    /\ req = NoReq
    /\ attempt = 0
    /\ events = <<>>
    /\ waitMs = 0
    /\ res = NoRes
    /\ ret = NoRet

seqVars == <<opts, client, newErr, pc, call, req, attempt, events, waitMs, res, ret>>

\* Outcomes of the transport, one of each kind the loop tells apart.
ConcOutcomes ==
    {NetFailure, Response(200, BodyEmptyObject), Response(404, BodyNotFound),
     Response(429, BodyNotFound), Response(500, BodyGarbage)}

\* A goroutine enters an action method that passes validation and reaches
\* the loop of request().
GoCall(i) ==
    /\ gs[i].pc \in {"idle", "done"}
    /\ gs' = [gs EXCEPT ![i] = [IdleGoroutine EXCEPT !.pc = "request"]]
    /\ UNCHANGED <<rng, seqVars>>

\* One loop iteration of goroutine i.
GoAttempt(i) ==
    /\ gs[i].pc = "request"
    /\ \E out \in ConcOutcomes :
        LET g == [gs[i] EXCEPT !.n = @ + 1]
            retry == [g EXCEPT !.attempt = @ + 1, !.pc = "backoff"]
            return(r) == [g EXCEPT !.pc = "done", !.ret = r]
        IN  gs' = [gs EXCEPT ![i] =
                IF out.failed
                THEN IF retryOnError(client, gs[i].attempt)
                     THEN retry
                     ELSE return(NetworkError(out).Code)
                ELSE IF isSuccess(out.status)
                THEN return("success")
                ELSE IF retryOnStatus(client, gs[i].attempt, out.status)
                THEN retry
                ELSE return(ApiError(out.status, safeJSON(out.body)).Code)]
    /\ UNCHANGED <<rng, seqVars>>

\* sleepWithBackoff up to the generator: without jitter c.sleep is called
\* at once; with jitter c.rng.Intn starts and reads the generator's state.
GoIntnLoad(i) ==
    /\ gs[i].pc = "backoff"
    /\ IF client.retryJitterMs > 0
       THEN gs' = [gs EXCEPT ![i].pc = "intn", ![i].tmp = rng]
       ELSE gs' = [gs EXCEPT ![i].pc = "sleep",
                             ![i].wait = backoffMs(client, gs[i].attempt)]
    /\ UNCHANGED <<rng, seqVars>>

\* c.rng.Intn, second half: the next state is written back and the draw,
\* a function of the state read, is returned; then c.sleep is called.
GoIntnStore(i) ==
    /\ gs[i].pc = "intn"
    /\ rng' = (gs[i].tmp + 1) % RngPeriod
    /\ gs' = [gs EXCEPT ![i].pc = "sleep", ![i].tmp = 0,
                        ![i].wait = backoffMs(client, gs[i].attempt)
                                      + (gs[i].tmp % (client.retryJitterMs + 1))]
    /\ UNCHANGED seqVars

\* c.rng.Intn while another goroutine is inside it too: the generator steps
\* its two indices with a decrement followed by a wrap-around, so a
\* goroutine can read an index the other has decremented and not yet
\* wrapped, and the slice access panics. The panic is not recovered: it
\* ends the calling goroutine's call without a return value and takes the
\* process down with it.
GoIntnPanic(i) ==
    /\ gs[i].pc = "intn"
    /\ \E j \in Goroutines \ {i} : gs[j].pc = "intn"
    /\ gs' = [gs EXCEPT ![i].pc = "panic", ![i].ret = "panic"]
    /\ UNCHANGED <<rng, seqVars>>

Crashed == \E i \in Goroutines : gs[i].pc = "panic"

GoSleepReturns(i) ==
    /\ gs[i].pc = "sleep"
    /\ gs' = [gs EXCEPT ![i].pc = "request", ![i].wait = 0]
    /\ UNCHANGED <<rng, seqVars>>

NextConc ==
    /\ ~Crashed
    /\ \E i \in Goroutines :
        \/ GoCall(i)
        \/ GoAttempt(i)
        \/ GoIntnLoad(i)
        \/ GoIntnStore(i)
        \/ GoIntnPanic(i)
        \/ GoSleepReturns(i)

SpecConc == InitConc /\ [][NextConc]_vars

\* The transport returns, the sleep ends, and the calling goroutine runs.
FairSpec ==
    /\ Spec
    /\ WF_vars(Attempt)
    /\ WF_vars(sleepWithBackoff)
    /\ WF_vars(SleepReturns)

TypeOK ==
    /\ pc \in {"new", "invalid", "idle", "request", "backoff", "sleep", "done", "conc"}
    /\ rng \in 0..(RngPeriod - 1)
    /\ \A i \in Goroutines :
          gs[i].pc \in {"idle", "request", "backoff", "intn", "sleep", "done", "panic"}
    /\ attempt \in Nat

(***************************************************************************)
(* Properties                                                              *)
(***************************************************************************)
IsRequestEvent(e) == e.type = "request"
IsSleepEvent(e) == e.type = "sleep"

\* The transport invocations of the running call, in order, and its sleeps.
Invocations == SelectSeq(events, IsRequestEvent)
Sleeps == SelectSeq(events, IsSleepEvent)

\* The outcomes the claims call retryable failures.
RetryableFailure(e) == e.failed \/ e.status = 429 \/ e.status >= 500
Is2xx(e) == ~e.failed /\ e.status >= 200 /\ e.status < 300

Returned == pc = "done"
ReturnedSuccess ==
    Returned /\ ret.res.kind = "PingSuccess" /\ ret.err = Nil
ReturnedApiError ==
    Returned /\ ret.res = Nil /\ ret.err.kind = "ApiError"
ReturnedValidation ==
    Returned /\ ret.res = Nil /\ ret.err.kind = "ValidationError"

\* C1: when the first N transport outcomes of a call are retryable failures
\* (transport failure, 429, status >= 500, in any mix) and N <= max retries,
\* the call has not given up after any of them, and when outcome N+1 is a
\* 2xx response the call returns success after exactly N+1 invocations.
C1_RetryThenSuccess ==
    LET inv == Invocations IN
    \A n \in 0..Len(inv) :
        (/\ pc \in {"request", "backoff", "sleep", "done"}
         /\ client.maxRetries >= n
         /\ \A i \in 1..n : RetryableFailure(inv[i]))
        => /\ (n >= 1 /\ n = Len(inv)) => ~Returned
           /\ (n < Len(inv) /\ Is2xx(inv[n + 1]))
                => ReturnedSuccess /\ Len(inv) = n + 1

\* Two retries of different kinds, then a 2xx: success after 3 invocations.
C1_Witness ==
    /\ ReturnedSuccess
    /\ client.maxRetries = 2
    /\ Len(Invocations) = 3
    /\ Invocations[1].failed
    /\ ~Invocations[2].failed /\ Invocations[2].status = 429
    /\ Is2xx(Invocations[3])

\* C2: a client constructed with max retries = 0 never retries: at most one
\* transport invocation per call and no backoff wait.
C2_ZeroMaxRetriesNeverRetries ==
    (pc \in {"request", "backoff", "sleep", "done"} /\ opts.MaxRetries = 0)
        => /\ Len(Invocations) <= 1
           /\ Len(Sleeps) = 0
           /\ pc \notin {"backoff", "sleep"}

\* A status the claims call non-retryable: outside [200,300), not 429, below 500.
NonRetryableStatus(e) ==
    ~e.failed /\ ~(e.status >= 200 /\ e.status < 300) /\ e.status # 429 /\ e.status < 500

\* C3: a non-retryable status ends the call at once with an API error, whatever
\* max retries is and however many retries were used; a 400 as the first
\* response gives a Validation-classified API error after exactly 1 request.
C3_NonRetryableStatusEndsCall ==
    LET inv == Invocations IN
    /\ \A i \in 1..Len(inv) :
          NonRetryableStatus(inv[i])
            => /\ i = Len(inv)
               /\ ReturnedApiError
               /\ ret.err.Code # CodeNetwork
               /\ ret.err.HTTPStatus = {inv[i].status}
    /\ (Len(inv) >= 1 /\ ~inv[1].failed /\ inv[1].status = 400)
          => /\ Len(inv) = 1
             /\ ReturnedApiError
             /\ ret.err.Code = CodeValidation
             /\ ~ret.err.Retryable

\* A 400 after one retry already used, with retries still left.
C3_Witness ==
    /\ Len(Invocations) = 2
    /\ client.maxRetries = 2
    /\ Invocations[1].failed
    /\ ~Invocations[2].failed /\ Invocations[2].status = 400
    /\ ReturnedApiError
    /\ ret.err.Code = CodeValidation

\* C4: a transport invocation is followed by another one only if it ended in
\* a transport failure, a 429 or a 5xx (500..599) response.
C4_OnlyNetwork429And5xxRetried ==
    LET inv == Invocations IN
    \A i \in 1..Len(inv) :
        (i < Len(inv) \/ pc \in {"backoff", "sleep"})
            => \/ inv[i].failed
               \/ inv[i].status = 429
               \/ (inv[i].status >= 500 /\ inv[i].status <= 599)

\* The table of the status classification, as the specification gives it.
TableCode(status) ==
    CASE status = 400 -> CodeValidation
      [] status = 404 -> CodeNotFound
      [] status = 429 -> CodeRateLimit
      [] status >= 500 -> CodeServer
      [] OTHER -> CodeUnknown
TableRetryable(status) == status = 429 \/ status >= 500

\* C5: every call that ends on a response outside [200,300) returns an API
\* error whose code and retryable flag follow the table and whose HTTP
\* status is the status of that last response.
C5_StatusClassification ==
    (Returned /\ Len(Invocations) >= 1 /\ ~res.failed
        /\ ~(res.status >= 200 /\ res.status < 300))
        => /\ ReturnedApiError
           /\ res.status = Invocations[Len(Invocations)].status
           /\ ret.err.Code = TableCode(res.status)
           /\ ret.err.Retryable = TableRetryable(res.status)
           /\ ret.err.HTTPStatus = {res.status}

C5_Witness ==
    /\ ReturnedApiError
    /\ res.status = 404
    /\ ret.err.Code = CodeNotFound
    /\ ~ret.err.Retryable
    /\ ret.err.HTTPStatus = {404}

AllFailed == \A i \in 1..Len(Invocations) : Invocations[i].failed

\* C6: when every transport invocation of a call fails at transport level,
\* the call does not return while fewer than max retries retries were made,
\* and then returns a Network error, retryable, without HTTP status and
\* carrying the failure; for max retries M >= 0 that is after M+1 invocations.
C6_NetworkExhaustion ==
    (pc \in {"request", "backoff", "sleep", "done"}
        /\ Len(Invocations) >= 1 /\ AllFailed)
        => /\ Len(Invocations) <= client.maxRetries => ~Returned
           /\ Returned
                => /\ ReturnedApiError
                   /\ ret.err.Code = CodeNetwork
                   /\ ret.err.Retryable
                   /\ ret.err.HTTPStatus = {}
                   /\ ret.err.Message = res.err
                   /\ ret.err.Raw = [cause |-> res.err]
                   /\ client.maxRetries >= 0
                        => Len(Invocations) = client.maxRetries + 1

C6_Witness ==
    /\ Returned
    /\ client.maxRetries = 2
    /\ Len(Invocations) = 3
    /\ AllFailed
    /\ ret.err.Code = CodeNetwork

\* The End status as the claim reads it: trimmed and lowercased.
EndStatusRejected(status) ==
    LET v == ToLower(TrimSpace(status)) IN
    v # <<>> /\ v # Str_success /\ v # Str_fail

ProgressRejected(input) ==
    \/ input.type \notin {"nil", "int", "ProgressOptions", "*ProgressOptions"}
    \/ input.type = "int" /\ input.v < 0
    \/ /\ input.type \in {"ProgressOptions", "*ProgressOptions"}
       /\ ~input.ptrNil
       /\ \E n \in input.Seq : n < 0

\* C7: an End call with a status other than success/fail (after trimming and
\* lowercasing, empty excepted) and a Progress call with a negative sequence
\* or an unsupported input return a Validation error with no transport
\* invocation and no backoff wait.
C7_ValidationBeforeNetwork ==
    ((call.method = "End" /\ EndStatusRejected(call.status))
        \/ (call.method = "Progress" /\ ProgressRejected(call.input)))
        => /\ ReturnedValidation
           /\ events = <<>>
           /\ req = NoReq
           /\ waitMs = 0

C7_Witness ==
    /\ call.method = "Progress"
    /\ call.input.type = "ProgressOptions"
    /\ call.input.Seq = {0 - 1}
    /\ ReturnedValidation
    /\ events = <<>>

C7_WitnessEnd ==
    /\ call.method = "End"
    /\ EndStatusRejected(call.status)
    /\ ReturnedValidation

\* Bodies that are not valid JSON, or whose top-level value is no object.
UnusableBodies == {BodyGarbage, BodyEmpty, BodyArray, BodyNull}

\* C8: a 2xx response ends the call with a success result (ok = true) and no
\* further transport invocation, at any attempt count and for any body; an
\* unusable body is replaced by {"message": "Invalid JSON response"}.
C8_SuccessShortCircuits ==
    LET inv == Invocations IN
    \A i \in 1..Len(inv) :
        Is2xx(inv[i])
            => /\ i = Len(inv)
               /\ ReturnedSuccess
               /\ ret.res.Ok = TRUE
               /\ res.status = inv[i].status
               /\ res.body \in UnusableBodies
                    => ret.res.Raw = [message |-> JString("Invalid JSON response")]

\* A 2xx with a body that is not JSON, after two retries: still a success.
C8_Witness ==
    /\ Len(Invocations) = 3
    /\ Is2xx(Invocations[3])
    /\ res.body = BodyGarbage
    /\ ReturnedSuccess
    /\ ret.res.Raw = [message |-> JString("Invalid JSON response")]

SeqSupplied(input) ==
    \/ input.type = "int"
    \/ input.type \in {"ProgressOptions", "*ProgressOptions"}
          /\ ~input.ptrNil /\ input.Seq # {}

SuppliedSeq(input) ==
    IF input.type = "int" THEN input.v ELSE CHOOSE n \in input.Seq : TRUE

IsDigits(s) == s # <<>> /\ \A i \in DOMAIN s : s[i] \in Range(DigitChars)

\* C9: every request handed to the transport is a POST to the base URL
\* followed by the path of its action; Progress uses /progress/{seq}, seq >= 0,
\* exactly when a sequence was supplied and always sends {"message": ...};
\* Ping, Start and End send no body.
C9_RequestShape ==
    LET prefix == client.baseURL \o Str_ping \o client.jobKey IN
    \A i \in 1..Len(Invocations) :
        LET a == Invocations[i].args IN
        /\ a.method = "POST"
        /\ call.method = "Ping" => a.url = prefix /\ a.body = Nil
        /\ call.method = "Start" => a.url = prefix \o Str_start /\ a.body = Nil
        /\ call.method \in {"End", "Success", "Fail"}
              => /\ a.url \in {prefix \o Str_end \o Str_success,
                               prefix \o Str_end \o Str_fail}
                 /\ a.body = Nil
        /\ call.method = "Progress"
              => /\ a.body.kind = "json"
                 /\ DOMAIN a.body = {"kind", "message"}
                 /\ IF SeqSupplied(call.input)
                    THEN /\ SuppliedSeq(call.input) >= 0
                         /\ a.url = prefix \o Str_progress \o <<"/">>
                                       \o FormatInt(SuppliedSeq(call.input))
                         /\ IsDigits(SubSeq(a.url,
                                Len(prefix \o Str_progress) + 2, Len(a.url)))
                    ELSE a.url = prefix \o Str_progress

C9_Witness ==
    /\ call.method = "Progress"
    /\ SeqSupplied(call.input)
    /\ SuppliedSeq(call.input) = 50
    /\ Len(Invocations) = 2
    /\ client.baseURL = <<"h",":","/","/","x">>

\* The message a Progress call was given, after the choice between the
\* variadic argument and the options' Message.
SuppliedMessage == progressSwitch(call.input, call.message).msg

\* The message the transport received, in characters.
Transmitted(i) == Invocations[i].args.body.message

Take(s, n) == SubSeq(s, 1, IF Len(s) < n THEN Len(s) ELSE n)

\* C10 as stated: the transmitted message is the first 255 characters of the
\* supplied message when that has more than 255 characters, and the supplied
\* message unchanged when it has at most 255 characters.
C10_TruncationByCharacters ==
    (call.method = "Progress" /\ Len(Invocations) >= 1)
        => LET chars == Runes(SuppliedMessage) IN
           \A i \in 1..Len(Invocations) :
              IF Len(chars) > 255
              THEN Transmitted(i) = Take(chars, 255) /\ Len(Transmitted(i)) = 255
              ELSE Transmitted(i) = chars

\* C10, amended: the limit counts bytes. The transmitted message is the JSON
\* encoding of the first 255 bytes of the supplied message when that is
\* longer than 255 bytes, and of the whole message otherwise; for a message
\* of single-byte characters this is the first 255 characters, respectively
\* the message unchanged.
C10_TruncationByBytes ==
    (call.method = "Progress" /\ Len(Invocations) >= 1)
        => LET m == SuppliedMessage
               ascii == \A j \in DOMAIN m : m[j] \in {"x", " "}
           IN  \A i \in 1..Len(Invocations) :
                /\ IF Len(m) > 255
                   THEN Transmitted(i) = Runes(SubSeq(m, 1, 255))
                   ELSE Transmitted(i) = Runes(m)
                /\ ascii /\ Len(m) > 255
                     => Transmitted(i) = SubSeq(m, 1, 255)
                            /\ Len(Transmitted(i)) = 255
                /\ ascii /\ Len(m) <= 255 => Transmitted(i) = m

C10_Witness ==
    /\ call.method = "Progress"
    /\ Len(Invocations) >= 1
    /\ Len(SuppliedMessage) = 256
    /\ \A j \in DOMAIN SuppliedMessage : SuppliedMessage[j] = "x"
    /\ Len(Transmitted(1)) = 255

\* The characters the job key may be made of, as the claim lists them.
KeyChars ==
    {"a","b","c","d","e","f","g","h","i","j","k","l","m",
     "n","o","p","q","r","s","t","u","v","w","x","y","z",
     "A","B","C","D","E","F","G","H","I","J","K","L","M",
     "N","O","P","Q","R","S","T","U","V","W","X","Y","Z",
     "0","1","2","3","4","5","6","7","8","9"}

\* C11: construction succeeds exactly for job keys of exactly 8 characters,
\* each in [a-zA-Z0-9]; for every other key it returns a Validation error
\* and no client.
C11_JobKeyValidation ==
    call.method = "NewPingClient"
        => LET k == call.jobKey IN
           IF Len(k) = 8 /\ Range(k) \subseteq KeyChars
           THEN /\ client.kind = "PingClient"
                /\ client.jobKey = k
                /\ newErr = Nil
           ELSE /\ client = NoClient
                /\ newErr.kind = "ValidationError"

\* A key of upper and lower case letters is accepted.
C11_Witness ==
    /\ call.method = "NewPingClient"
    /\ call.jobKey = <<"Y","C","r","X","z","Y","b","V">>
    /\ client.kind = "PingClient"

C11_WitnessRejected ==
    /\ call.method = "NewPingClient"
    /\ Len(call.jobKey) = 9
    /\ client = NoClient
    /\ newErr.kind = "ValidationError"

\* The action name each method hands to request().
RequestAction ==
    CASE call.method = "Ping" -> "ping"
      [] call.method = "Start" -> "start"
      [] call.method \in {"End", "Success", "Fail"} -> "end"
      [] call.method = "Progress" -> "progress"
      [] OTHER -> ""

IsStringField(body, key) == key \in DOMAIN body /\ body[key].t = "string"

\* A processing time the claim calls absent or unparseable: no field, a
\* value that is neither number nor string, or a string that does not start
\* with a number.
NoProcessingTime(body) ==
    \/ "processing_time_ms" \notin DOMAIN body
    \/ body["processing_time_ms"].t \notin {"number", "string"}
    \/ body["processing_time_ms"].t = "string"
          /\ body["processing_time_ms"].s \in {"abc", ""}

RetriesMade == Len(Sleeps)

Max0(n) == IF n > 0 THEN n ELSE 0

\* C13 as stated: a returned API error with retryable = true means max
\* retries retries were made, the transport invoked max retries + 1 times.
C13_RetryableMeansExhausted ==
    (ReturnedApiError /\ ret.err.Retryable)
        => /\ RetriesMade = client.maxRetries
           /\ Len(Invocations) = client.maxRetries + 1

\* C13, amended: a returned API error with retryable = true means the call
\* made max(max retries, 0) retries and invoked the transport
\* max(max retries, 0) + 1 times.
C13_RetryableMeansExhaustedFromZero ==
    (ReturnedApiError /\ ret.err.Retryable)
        => /\ RetriesMade = Max0(client.maxRetries)
           /\ attempt = Max0(client.maxRetries)
           /\ Len(Invocations) = Max0(client.maxRetries) + 1

\* A 429 returned after the two retries of the budget, the first of them
\* spent on a transport failure.
C13_Witness ==
    /\ ReturnedApiError
    /\ ret.err.Retryable
    /\ ret.err.Code = CodeRateLimit
    /\ client.maxRetries = 2
    /\ Len(Invocations) = 3
    /\ Invocations[1].failed

Running == pc \in {"request", "backoff", "sleep"}

\* Steps a running call has left at most: three per retry still allowed
\* (sleepWithBackoff, the sleep, the next invocation) and the return.
Measure ==
    LET left == 3 * (Max0(client.maxRetries) - attempt) IN
    CASE pc = "request" -> left + 3
      [] pc = "backoff" -> left + 5
      [] pc = "sleep" -> left + 4
      [] OTHER -> 0

ExactlyOneOutcome ==
    (ret.res # Nil /\ ret.err = Nil) \/ (ret.res = Nil /\ ret.err # Nil)

LoopStep == Attempt \/ sleepWithBackoff \/ SleepReturns

\* C14: a call that passed validation always has a next step while it runs,
\* every step brings it closer to its return, so that it returns under the
\* fairness of FairSpec, and it returns either a result or an error, never
\* both and never neither.
C14_TerminatesWithOneOutcome ==
    /\ [](Returned => ExactlyOneOutcome)
    /\ [](~Returned => ret = NoRet)
    /\ [](Running => Measure > 0 /\ ENABLED LoopStep)
    /\ [][Running => Measure' < Measure /\ Measure' >= 0]_vars
    /\ (Running ~> Returned)

\* A call returned an error after using its whole budget.
C14_Witness ==
    /\ Returned
    /\ Len(Invocations) = 3
    /\ ret.res = Nil
    /\ ret.err.kind = "ApiError"
    /\ ExactlyOneOutcome

\* C15: the wait before the k-th retry is backoffBase * 2^(k-1) + j with
\* 0 <= j <= jitterBound, and j is 0 when the jitter bound is configured
\* as 0.
C15_BackoffFormula ==
    pc = "sleep"
        => LET k == attempt
               j == waitMs - client.retryBackoffMs * Pow2(k - 1)
           IN  /\ k = Len(Sleeps)
               /\ 0 <= j
               /\ j <= client.retryJitterMs
               /\ opts.RetryJitterMs = 0 => j = 0

Substitute == [message |-> JString("Invalid JSON response")]

\* The message each error body leads to, read off the body text.
ExpectedMessage(body) ==
    CASE body = BodyNotFound -> "Job not found"
      [] body \in UnusableBodies -> "Invalid JSON response"
      [] OTHER -> "Request failed"

\* C16: a call that ends on a non-2xx response returns an API error
\* classified by the status; its message is the body's message field when
\* that is a non-empty string and "Request failed" otherwise; a body that is
\* not JSON or not an object is replaced by {"message": "Invalid JSON
\* response"}, which is then the raw payload of the error.
C16_ErrorBodyTolerated ==
    (Returned /\ Len(Invocations) >= 1 /\ ~res.failed
        /\ ~(res.status >= 200 /\ res.status < 300))
        => /\ ReturnedApiError
           /\ ret.err.Code = TableCode(res.status)
           /\ ret.err.Message = ExpectedMessage(res.body)
           /\ ret.err.Message # ""
           /\ res.body \in UnusableBodies => ret.err.Raw = Substitute
           /\ res.body = BodyNumberMessage
                => ret.err.Raw = [message |-> JNumber(5)]
           /\ res.body = BodyEmptyObject => ret.err.Raw = <<>>

\* A 500 with a body that is no JSON, returned after the budget was used.
C16_Witness ==
    /\ ReturnedApiError
    /\ res.status = 500
    /\ res.body = BodyGarbage
    /\ Len(Invocations) = 3
    /\ ret.err.Message = "Invalid JSON response"
    /\ ret.err.Raw = Substitute

\* The goroutines that are inside c.rng.Intn.
InIntn == {i \in Goroutines : gs[i].pc = "intn"}

\* C17: concurrent calls on one client never access the jitter generator's
\* state at the same time.
C17_GeneratorNotShared == Cardinality(InIntn) <= 1

\* C18: after construction no step of an action call changes the client's
\* base URL, job key, timeout, max retries, backoff base, jitter bound or
\* user agent, and all transport invocations of one call carry the same
\* method, URL, headers, body and timeout.
C18_ClientAndRequestFixed ==
    /\ [][pc # "new" => client' = client]_vars
    /\ [](\A i \in 1..Len(Invocations) :
            /\ Invocations[i].args = Invocations[1].args
            /\ Invocations[i].args = TransportArgs(client, req)
            /\ Invocations[i].args.timeoutMs = client.timeoutMs
            /\ Invocations[i].args.headers.UserAgent = client.userAgent)

\* A Progress call with a body went to the transport three times.
C18_Witness ==
    /\ Returned
    /\ call.method = "Progress"
    /\ Len(Invocations) = 3
    /\ Invocations[3].args = Invocations[1].args
    /\ Invocations[3].args.body.kind = "json"
    /\ client.timeoutMs = 10

\* C19: transport failures and retryable responses draw on one counter: a
\* call invokes the transport at most max(maxRetries, 0) + 1 times, whatever
\* the mix of outcomes.
C19_SharedRetryCounter ==
    client # NoClient =>
        /\ Len(Invocations) <= Max0(client.maxRetries) + 1
        /\ RetriesMade <= Max0(client.maxRetries)
        /\ Running => attempt <= Max0(client.maxRetries)
        /\ Running => attempt = Len(Invocations)

\* A transport failure, a 429 and a 500 used up a budget of two retries.
C19_Witness ==
    /\ Returned
    /\ client.maxRetries = 2
    /\ Len(Invocations) = 3
    /\ Invocations[1].failed
    /\ ~Invocations[2].failed /\ Invocations[2].status = 429
    /\ ~Invocations[3].failed /\ Invocations[3].status = 500
    /\ ret.err.Code = CodeServer

\* C20: invocations and waits alternate, starting and ending with an
\* invocation: the events of a call are invocation, wait, invocation, ...,
\* the k-th wait was computed with attempt number k, and a returned call
\* with n invocations made n-1 waits.
C20_InvocationsAndWaitsAlternate ==
    /\ \A i \in 1..Len(events) :
          IF i % 2 = 1
          THEN events[i].type = "request"
          ELSE events[i].type = "sleep" /\ events[i].attempt = i \div 2
    /\ \A k \in 1..Len(Sleeps) : Sleeps[k].attempt = k
    /\ pc = "request" => Len(Sleeps) = Len(Invocations)
    /\ pc = "backoff" => Len(Sleeps) = Len(Invocations) - 1
    /\ pc = "sleep"
          => /\ Len(Sleeps) = Len(Invocations)
             /\ waitMs - backoffMs(client, Len(Sleeps)) \in JitterDraws(client)
    /\ (Returned /\ Len(Invocations) >= 1)
          => /\ Len(Sleeps) = Len(Invocations) - 1
             /\ events[Len(events)].type = "request"
    /\ (Returned /\ Len(Invocations) = 0) => Len(Sleeps) = 0

C20_Witness ==
    /\ Returned
    /\ Len(Invocations) = 3
    /\ Len(Sleeps) = 2
    /\ Sleeps[2].attempt = 2

\* What one loop iteration makes of goroutine record g and transport
\* outcome out when nothing but g, out and the client's fixed
\* configuration counts.
OwnResult(out) ==
    IF out.failed THEN CodeNetwork
    ELSE IF Is2xx(out) THEN "success"
    ELSE TableCode(out.status)

OwnStep(g, out) ==
    IF ~Is2xx(out) /\ RetryableFailure(out) /\ g.attempt < client.maxRetries
    THEN [g EXCEPT !.n = @ + 1, !.attempt = @ + 1, !.pc = "backoff"]
    ELSE [g EXCEPT !.n = @ + 1, !.pc = "done", !.ret = OwnResult(out)]

RetryableCodes == {CodeNetwork, CodeRateLimit, CodeServer}

\* Where a call that is under way can be, short of having returned.
GoRunning == {"request", "backoff", "intn", "sleep"}

\* C21: the retry budget is per call. Under every interleaving of the calls
\* of several goroutines on one client, a step of one call leaves the other
\* calls as they were, each loop iteration of a call is decided by that
\* call's own counter and its own transport outcome, a call invokes the
\* transport at most max(maxRetries, 0) + 1 times and gives up on a
\* retryable failure only after that many invocations of its own, and a
\* call that is under way goes on until it returns its outcome.
C21_RetryBudgetPerCall ==
    /\ [](\A i \in Goroutines :
            /\ gs[i].n <= Max0(client.maxRetries) + 1
            /\ gs[i].attempt <= Max0(client.maxRetries)
            /\ gs[i].pc \in GoRunning => gs[i].attempt = gs[i].n
            /\ gs[i].pc = "done" => gs[i].attempt = gs[i].n - 1
            /\ (gs[i].pc = "done" /\ gs[i].ret \in RetryableCodes)
                  => gs[i].n = Max0(client.maxRetries) + 1)
    /\ [][\A i \in Goroutines :
            gs'[i] # gs[i] =>
                /\ \A j \in Goroutines \ {i} : gs'[j] = gs[j]
                /\ gs[i].pc = "request"
                      => \E out \in ConcOutcomes : gs'[i] = OwnStep(gs[i], out)
                /\ gs[i].pc \in {"idle", "done"}
                      => gs'[i].attempt = 0 /\ gs'[i].n = 0
                /\ gs[i].pc \in GoRunning
                      => gs'[i].pc \in GoRunning \cup {"done"}]_vars

\* C22: on a client built with a negative max retries option a call never
\* retries: it never waits, it invokes the transport exactly once unless
\* validation ends it first, and it returns what that invocation gave: a
\* Network error on a transport failure, success on a 2xx status, an API
\* error with the response's status on any other status.
C22_NegativeMaxRetriesNeverRetries ==
    (client # NoClient /\ opts.MaxRetries < 0) =>
        /\ Len(Sleeps) = 0
        /\ pc \notin {"backoff", "sleep"}
        /\ Len(Invocations) <= 1
        /\ Returned =>
              /\ ReturnedValidation <=> Len(Invocations) = 0
              /\ Len(Invocations) = 1 =>
                    LET e == Invocations[1] IN
                    /\ e.failed =>
                          /\ ReturnedApiError
                          /\ ret.err.Code = CodeNetwork
                          /\ ret.err.HTTPStatus = {}
                    /\ Is2xx(e) => ReturnedSuccess
                    /\ (~e.failed /\ ~Is2xx(e)) =>
                          /\ ReturnedApiError
                          /\ ret.err.HTTPStatus = {e.status}
                          /\ ret.err.Code = TableCode(e.status)

\* With MaxRetries -1 a call met a 500 and returned it after one invocation.
C22_Witness ==
    /\ client # NoClient
    /\ opts.MaxRetries < 0
    /\ Returned
    /\ Len(Invocations) = 1
    /\ Invocations[1].status = 500
    /\ ReturnedApiError
    /\ ret.err.Retryable

\* With MaxRetries -1 a transport failure was returned as a Network error.
C22_WitnessNetwork ==
    /\ client # NoClient
    /\ opts.MaxRetries < 0
    /\ Returned
    /\ Len(Invocations) = 1
    /\ Invocations[1].failed
    /\ ret.err.Code = CodeNetwork

====
